---------------------------- MODULE Spec2Model ----------------------------
(***************************************************************************)
(* A model of the sharded cache of hashcache.cc: HashTree (an unbalanced   *)
(* binary search tree, one per bucket) and Cache (buckets, one mutex per   *)
(* bucket, the atomic counter cacheSize, and the two-phase removeLRU).     *)
(*                                                                         *)
(* A tree is a nested record; nullptr is NULL.  A node object carries,     *)
(* besides the fields of the class, the set `refs` of threads whose local  *)
(* pointer `oldest` (Cache::removeLRU) refers to that object: this is how  *)
(* the identity of a heap object is kept, so that a pointer to a node that *)
(* was deleted, or whose key and value were overwritten in place, is told  *)
(* apart from a pointer to a live, unchanged node.                         *)
(***************************************************************************)
EXTENDS Integers, Sequences, FiniteSets, TLC

\* ------------------------------------------------------------- bounds
\* The source sets NUM_BUCKETS = CACHE_SIZE = 1024; the model scales both.
NUM_BUCKETS == 2
CACHE_SIZE == 2
NumThreads == 2
MaxKey == 3
MaxVal == 2
MaxTime == 2
MaxOps == 4
\* The calls of the single-threaded workload.
SeqOps == 7
\* The workload of the progress properties.
FairThreads == 3
FairOps == 3

Keys == 1..MaxKey
Vals == 1..MaxVal
Buckets == 0..(NUM_BUCKETS - 1)

\* ------------------------------------------------------------ HashTree
NULL == [null |-> TRUE]

\* V() of get's local valWrapper: the value handed back on a miss.
NoVal == 0

\* m_val is the pair<V, long> the cache stores: <<value, timestamp>>.
HashTree(key, val) ==
  [m_key |-> key, m_val |-> val, m_left |-> NULL, m_right |-> NULL, refs |-> {}]

\* An insertion that routes the other way round: larger keys to the left.
RECURSIVE insertNodeSwapped(_, _, _)
insertNodeSwapped(root, key, val) ==
  IF root = NULL THEN HashTree(key, val)
  ELSE IF root.m_key >= key
       THEN [root EXCEPT !.m_right = insertNodeSwapped(root.m_right, key, val)]
       ELSE [root EXCEPT !.m_left = insertNodeSwapped(root.m_left, key, val)]

RECURSIVE insertNode(_, _, _)
insertNode(root, key, val) ==
  IF root = NULL THEN HashTree(key, val)
  ELSE IF root.m_key >= key
       THEN [root EXCEPT !.m_left = insertNode(root.m_left, key, val)]
       ELSE [root EXCEPT !.m_right = insertNode(root.m_right, key, val)]

\* A lookup that descends the other way round: left for a larger key.
RECURSIVE getValSwapped(_, _, _)
getValSwapped(root, key, val) ==
  IF root = NULL THEN <<FALSE, val>>
  ELSE IF root.m_key = key THEN <<TRUE, root.m_val>>
  ELSE IF root.m_key < key THEN getValSwapped(root.m_left, key, val)
  ELSE getValSwapped(root.m_right, key, val)

\* <<return value, val>>; val keeps the caller's value on a miss.
RECURSIVE getVal(_, _, _)
getVal(root, key, val) ==
  IF root = NULL THEN <<FALSE, val>>
  ELSE IF root.m_key = key THEN <<TRUE, root.m_val>>
  ELSE IF root.m_key > key THEN getVal(root.m_left, key, val)
  ELSE getVal(root.m_right, key, val)

RECURSIVE getSmallestNode(_)
getSmallestNode(root) ==
  IF root # NULL /\ root.m_left # NULL THEN getSmallestNode(root.m_left)
  ELSE root

RECURSIVE remove(_, _)
remove(root, key) ==
  IF root = NULL THEN NULL
  ELSE IF root.m_key > key
       THEN [root EXCEPT !.m_left = remove(root.m_left, key)]
  ELSE IF root.m_key < key
       THEN [root EXCEPT !.m_right = remove(root.m_right, key)]
  ELSE IF root.m_left = NULL THEN root.m_right
  ELSE IF root.m_right = NULL THEN root.m_left
  ELSE LET inOrderSuccessor == getSmallestNode(root.m_right)
       IN  [root EXCEPT !.m_key = inOrderSuccessor.m_key,
                        !.m_val = inOrderSuccessor.m_val,
                        !.m_right = remove(root.m_right, inOrderSuccessor.m_key)]

\* A comparator that returns the younger of two candidates.
funcYounger(left, right) ==
  IF left = NULL THEN right
  ELSE IF right = NULL THEN left
  ELSE IF left.node.m_val[2] > right.node.m_val[2] THEN left ELSE right

\* The lambda `func` of removeLRU: the older of two candidates; a candidate
\* is NULL or [node |-> the node, path |-> where it is in the bucket's tree].
func(left, right) ==
  IF left = NULL THEN right
  ELSE IF right = NULL THEN left
  ELSE IF left.node.m_val[2] < right.node.m_val[2] THEN left ELSE right

RECURSIVE seekAt(_, _)
seekAt(root, path) ==
  IF root = NULL THEN NULL
  ELSE LET left == seekAt(root.m_left, Append(path, "L"))
           right == seekAt(root.m_right, Append(path, "R"))
       IN  func(func(left, right), [node |-> root, path |-> path])

seekWithComparator(root) == seekAt(root, <<>>)

\* ------------------------------------------------- pointers to nodes
RECURSIVE Refs(_)
Refs(root) ==
  IF root = NULL THEN {}
  ELSE root.refs \cup Refs(root.m_left) \cup Refs(root.m_right)

\* The node object thread t's `oldest` points to, NULL when none is live.
RECURSIVE Target(_, _)
Target(root, t) ==
  IF root = NULL THEN NULL
  ELSE IF t \in root.refs THEN root
  ELSE IF Target(root.m_left, t) # NULL THEN Target(root.m_left, t)
  ELSE Target(root.m_right, t)

\* oldest = the node at path: thread t now refers to that object.
RECURSIVE Point(_, _, _)
Point(root, path, t) ==
  IF path = <<>> THEN [root EXCEPT !.refs = @ \cup {t}]
  ELSE IF Head(path) = "L"
       THEN [root EXCEPT !.m_left = Point(root.m_left, Tail(path), t)]
       ELSE [root EXCEPT !.m_right = Point(root.m_right, Tail(path), t)]

\* oldest is reassigned or goes out of scope: t refers to no node of root.
RECURSIVE Unpoint(_, _)
Unpoint(root, t) ==
  IF root = NULL THEN NULL
  ELSE [root EXCEPT !.refs = @ \ {t},
                    !.m_left = Unpoint(root.m_left, t),
                    !.m_right = Unpoint(root.m_right, t)]

RECURSIVE Size(_)
Size(root) ==
  IF root = NULL THEN 0 ELSE 1 + Size(root.m_left) + Size(root.m_right)

RECURSIVE KeysOf(_)
KeysOf(root) ==
  IF root = NULL THEN {}
  ELSE {root.m_key} \cup KeysOf(root.m_left) \cup KeysOf(root.m_right)

\* The timestamps stored in a tree.
RECURSIVE StampsOf(_)
StampsOf(root) ==
  IF root = NULL THEN {}
  ELSE {root.m_val[2]} \cup StampsOf(root.m_left) \cup StampsOf(root.m_right)

\* How many nodes of a tree hold the entry e = <<key, value, timestamp>>.
RECURSIVE Count(_, _)
Count(root, e) ==
  IF root = NULL THEN 0
  ELSE (IF <<root.m_key, root.m_val[1], root.m_val[2]>> = e THEN 1 ELSE 0)
       + Count(root.m_left, e) + Count(root.m_right, e)

\* The ordering of a search tree that admits equal keys on either side.
RECURSIVE Ordered(_)
Ordered(root) ==
  \/ root = NULL
  \/ /\ \A k \in KeysOf(root.m_left) : k <= root.m_key
     /\ \A k \in KeysOf(root.m_right) : k >= root.m_key
     /\ Ordered(root.m_left)
     /\ Ordered(root.m_right)

\* The keys of a tree in the order of an in-order traversal.
RECURSIVE InOrder(_)
InOrder(root) ==
  IF root = NULL THEN <<>>
  ELSE InOrder(root.m_left) \o <<root.m_key>> \o InOrder(root.m_right)

\* Some node of the tree has two children.
RECURSIVE HasTwoChildren(_)
HasTwoChildren(root) ==
  /\ root # NULL
  /\ \/ root.m_left # NULL /\ root.m_right # NULL
     \/ HasTwoChildren(root.m_left)
     \/ HasTwoChildren(root.m_right)

\* Some node's left child has the node's key: the second node a repeated
\* put of a key leaves (insertNode sends an equal key to the left).
RECURSIVE HasEqualLeft(_)
HasEqualLeft(root) ==
  /\ root # NULL
  /\ \/ root.m_left # NULL /\ root.m_left.m_key = root.m_key
     \/ HasEqualLeft(root.m_left)
     \/ HasEqualLeft(root.m_right)

\* Some node's right child has the node's key: what remove leaves when it
\* copies the in-order successor into a node with two children and the
\* successor's key is stored twice.
RECURSIVE HasEqualRight(_)
HasEqualRight(root) ==
  /\ root # NULL
  /\ \/ root.m_right # NULL /\ root.m_right.m_key = root.m_key
     \/ HasEqualRight(root.m_left)
     \/ HasEqualRight(root.m_right)

\* ---------------------------------------------------------------- Cache
VARIABLES
  buckets,      \* buckets[b]: the root of bucket b's tree
  bucketLocks,  \* bucketLocks[b]: the thread holding the mutex, 0 when free
  cacheSize,    \* the atomic counter
  now,          \* system_clock::now(), in milliseconds
  pc,           \* where each thread is
  op,           \* the public method each thread is in
  key, val,     \* the arguments of the thread's get or put
  rkey,         \* the argument of the thread's Cache::remove
  idx,          \* removeLRU's loop variable i
  oldest,       \* removeLRU's pointer: "null", "live" or "freed"
  ret,          \* what the thread's last call returned
  fault,        \* "none", or why the process was killed
  ops,          \* calls the workload has left
  lastWrite,    \* per key: the last completed put's value, or Removed
  fill          \* the insertFunc driver's record of its puts

vars == <<buckets, bucketLocks, cacheSize, now, pc, op, key, val, rkey, idx,
          oldest, ret, fault, ops, lastWrite, fill>>

\* The threads of the workload.
Threads == DOMAIN pc

hashFunc(k) == k % NUM_BUCKETS

\* Return values are tuples: <<>> while none, <<b>> of put and remove,
\* <<found, value>> of get.
NoRet == <<>>
Unwritten == 0
Removed == -1
NoFill == [keys |-> <<>>, done |-> 0, strict |-> TRUE, serial |-> TRUE]

\* The state Cache() leaves, with n idle threads that will make `calls` calls.
Start(n, calls) ==
  /\ pc = [t \in 1..n |-> "idle"]
  /\ buckets = [b \in Buckets |-> NULL]
  /\ bucketLocks = [b \in Buckets |-> 0]
  /\ cacheSize = 0
  /\ now = 0
  /\ op = [t \in Threads |-> "none"]
  /\ key = [t \in Threads |-> 0]
  /\ val = [t \in Threads |-> 0]
  /\ rkey = [t \in Threads |-> 0]
  /\ idx = [t \in Threads |-> 0]
  /\ oldest = [t \in Threads |-> "null"]
  /\ ret = [t \in Threads |-> NoRet]
  /\ fault = "none"
  /\ ops = calls
  /\ lastWrite = [k \in Keys |-> Unwritten]
  /\ fill = NoFill

Init == Start(NumThreads, MaxOps)

Running == fault = "none"
AllIdle == \A t \in Threads : pc[t] = "idle"

\* What Cache::get(k) returns in the current state: <<found, value>>.
Get(k) ==
  LET r == getVal(buckets[hashFunc(k)], k, <<NoVal, 0>>)
  IN  <<r[1], r[2][1]>>

\* Capacity tests a slip would write: on a value one too large, and strict.
FullEarly(old) == old + 1 >= CACHE_SIZE
FullStrict(old) == old > CACHE_SIZE

\* put's capacity test on the value fetch_add returned.
Full(old) == old >= CACHE_SIZE

\* scoped_lock<mutex> lock(bucketLocks[b]): blocks until the mutex is free.
Lock(t, b, to) ==
  /\ Running
  /\ bucketLocks[b] = 0
  /\ bucketLocks' = [bucketLocks EXCEPT ![b] = t]
  /\ pc' = [pc EXCEPT ![t] = to]

\* The scoped_lock's destructor.
Unlock(b) == bucketLocks' = [bucketLocks EXCEPT ![b] = 0]

\* A public method is entered by an idle thread.
Enter(t, name) ==
  /\ Running
  /\ pc[t] = "idle"
  /\ ops > 0
  /\ ops' = ops - 1
  /\ op' = [op EXCEPT ![t] = name]
  /\ ret' = [ret EXCEPT ![t] = NoRet]

\* ------------------------------------------------------------ Cache::get
GetCall(t, k) ==
  /\ Enter(t, "get")
  /\ key' = [key EXCEPT ![t] = k]
  /\ pc' = [pc EXCEPT ![t] = "get_wait"]
  /\ UNCHANGED <<buckets, bucketLocks, cacheSize, now, val, rkey, idx, oldest,
                 fault, lastWrite, fill>>

GetLock(t) ==
  /\ pc[t] = "get_wait"
  /\ Lock(t, hashFunc(key[t]), "get_cs")
  /\ UNCHANGED <<buckets, cacheSize, now, op, key, val, rkey, idx, oldest, ret,
                 fault, ops, lastWrite, fill>>

GetBody(t) ==
  /\ Running
  /\ pc[t] = "get_cs"
  /\ ret' = [ret EXCEPT ![t] = Get(key[t])]
  /\ Unlock(hashFunc(key[t]))
  /\ pc' = [pc EXCEPT ![t] = "idle"]
  /\ key' = [key EXCEPT ![t] = 0]
  /\ UNCHANGED <<buckets, cacheSize, now, op, val, rkey, idx, oldest, fault,
                 ops, lastWrite, fill>>

\* ------------------------------------------------------------ Cache::put
\* fetch_add, the capacity test and, when it fires, the call of removeLRU.
PutEnter(t, k, v) ==
  /\ Enter(t, "put")
  /\ key' = [key EXCEPT ![t] = k]
  /\ val' = [val EXCEPT ![t] = v]
  /\ cacheSize' = cacheSize + 1
  /\ pc' = [pc EXCEPT ![t] = IF Full(cacheSize) THEN "lru_wait" ELSE "put_wait"]
  /\ UNCHANGED <<buckets, bucketLocks, now, rkey, idx, oldest, fault, lastWrite>>

PutCall(t, k, v) == PutEnter(t, k, v) /\ UNCHANGED fill

\* The put of the second source variant, part_000: the same statements with
\* the capacity test fetch_add(1) > CACHE_SIZE.
Full000(old) == old > CACHE_SIZE

PutEnter000(t, k, v) ==
  /\ Enter(t, "put")
  /\ key' = [key EXCEPT ![t] = k]
  /\ val' = [val EXCEPT ![t] = v]
  /\ cacheSize' = cacheSize + 1
  /\ pc' = [pc EXCEPT ![t] =
              IF Full000(cacheSize) THEN "lru_wait" ELSE "put_wait"]
  /\ UNCHANGED <<buckets, bucketLocks, now, rkey, idx, oldest, fault, lastWrite>>

PutCall000(t, k, v) == PutEnter000(t, k, v) /\ UNCHANGED fill

PutLock(t) ==
  /\ pc[t] = "put_wait"
  /\ Lock(t, hashFunc(key[t]), "put_cs")
  /\ UNCHANGED <<buckets, cacheSize, now, op, key, val, rkey, idx, oldest, ret,
                 fault, ops, lastWrite, fill>>

\* The clock readings a put may get: time does not run backwards.
ClockReadings == {ts \in {now, now + 1} : ts <= MaxTime}

PutInsert(t, ts) ==
  /\ Running
  /\ pc[t] = "put_cs"
  /\ now' = ts
  /\ buckets' = [buckets EXCEPT ![hashFunc(key[t])] =
                   insertNode(@, key[t], <<val[t], ts>>)]
  /\ ret' = [ret EXCEPT ![t] = <<TRUE>>]
  /\ Unlock(hashFunc(key[t]))
  /\ pc' = [pc EXCEPT ![t] = "idle"]
  /\ key' = [key EXCEPT ![t] = 0]
  /\ val' = [val EXCEPT ![t] = 0]
  /\ lastWrite' = [lastWrite EXCEPT ![key[t]] = val[t]]
  /\ UNCHANGED <<cacheSize, op, rkey, idx, oldest, fault, ops>>

PutBody(t) == \E ts \in ClockReadings : PutInsert(t, ts) /\ UNCHANGED fill

\* ------------------------------------------- main's insertFunc driver
\* Each worker puts keys no worker has put before.  The driver's record:
\* keys, the <<key, value>> pairs in the order of the calls; done, how many
\* puts have returned; serial, no call was made while another was running;
\* strict, every insertion read a later timestamp than the one before it.
FillKeys == {fill.keys[n][1] : n \in 1..Len(fill.keys)}

\* make_shared<Element>(i, '\0', randKey): the value is built from the key.
ElementOf(k) == 1 + (k % MaxVal)

FillCall(t) ==
  \E k \in Keys \ FillKeys :
    /\ PutEnter(t, k, ElementOf(k))
    /\ fill' = [fill EXCEPT !.keys = Append(@, <<k, ElementOf(k)>>),
                            !.serial = @ /\ AllIdle]

FillBody(t) ==
  \E ts \in ClockReadings :
    /\ PutInsert(t, ts)
    /\ fill' = [fill EXCEPT !.done = @ + 1,
                            !.strict = @ /\ (fill.done = 0 \/ ts > now)]

\* --------------------------------------------------------- Cache::remove
RemoveCall(t, k) ==
  /\ Enter(t, "remove")
  /\ rkey' = [rkey EXCEPT ![t] = k]
  /\ pc' = [pc EXCEPT ![t] = "rm_wait"]
  /\ UNCHANGED <<buckets, bucketLocks, cacheSize, now, key, val, idx, oldest,
                 fault, lastWrite, fill>>

RemoveLock(t) ==
  /\ pc[t] = "rm_wait"
  /\ Lock(t, hashFunc(rkey[t]), "rm_cs")
  /\ UNCHANGED <<buckets, cacheSize, now, op, key, val, rkey, idx, oldest, ret,
                 fault, ops, lastWrite, fill>>

\* What Cache::remove returns.
RemoveResult(before, after) == <<TRUE>>

\* Where remove's return leads: back to the caller, or, through the end of
\* removeLRU, on to put's insertion.  removeLRU is declared bool and ends
\* without a return statement; no caller reads what it returns, and the
\* model gives it no return value.
AfterRemove(t) == IF op[t] = "put" THEN "put_wait" ELSE "idle"

RemoveBody(t) ==
  /\ Running
  /\ pc[t] = "rm_cs"
  /\ LET b == hashFunc(rkey[t])
         after == remove(buckets[b], rkey[t])
         freed == Refs(buckets[b]) \ Refs(after)
     IN  /\ buckets' = [buckets EXCEPT ![b] = after]
         /\ oldest' = [u \in Threads |->
                         IF u \in freed THEN "freed" ELSE oldest[u]]
         /\ ret' = [ret EXCEPT ![t] =
                      IF op[t] = "remove"
                      THEN RemoveResult(buckets[b], after) ELSE NoRet]
         /\ Unlock(b)
  /\ cacheSize' = cacheSize - 1
  /\ pc' = [pc EXCEPT ![t] = AfterRemove(t)]
  /\ rkey' = [rkey EXCEPT ![t] = 0]
  /\ lastWrite' = [k \in Keys |-> IF k = rkey[t] THEN Removed ELSE lastWrite[k]]
  /\ UNCHANGED <<now, op, key, val, idx, fault, ops, fill>>

\* ------------------------------------------------------ Cache::removeLRU
LruCall(t) ==
  /\ Enter(t, "removeLRU")
  /\ pc' = [pc EXCEPT ![t] = "lru_wait"]
  /\ UNCHANGED <<buckets, bucketLocks, cacheSize, now, key, val, rkey, idx,
                 oldest, fault, lastWrite, fill>>

LruLock(t) ==
  /\ pc[t] = "lru_wait"
  /\ Lock(t, idx[t], "lru_cs")
  /\ UNCHANGED <<buckets, cacheSize, now, op, key, val, rkey, idx, oldest, ret,
                 fault, ops, lastWrite, fill>>

\* The node thread t's `oldest` points to, when that node is still allocated.
Oldest(t) ==
  LET live == {b \in Buckets : t \in Refs(buckets[b])}
  IN  IF live = {} THEN NULL ELSE Target(buckets[CHOOSE b \in live : TRUE], t)

\* currentOldest->m_val.second < oldest->m_val.second, read through a pointer
\* kept from a bucket whose lock was released: the node's present timestamp
\* while it is allocated, anything once it has been deleted.
OlderThanOldest(t, cur) ==
  IF oldest[t] = "live" THEN {cur.node.m_val[2] < Oldest(t).m_val[2]}
  ELSE BOOLEAN

\* Whether one pass of the loop body assigns oldest = currentOldest.
Takes(t, cur) ==
  IF cur = NULL THEN {FALSE}
  ELSE IF oldest[t] = "null" THEN {TRUE}
  ELSE OlderThanOldest(t, cur)

\* A lock taken outside the loop body would outlive the pass.
ScanKeepsLock(t) == UNCHANGED bucketLocks

\* The lock the loop body's scoped_lock gives up at the end of a pass.
ScanUnlock(t) == Unlock(idx[t])

LruScan(t) ==
  /\ Running
  /\ pc[t] = "lru_cs"
  /\ LET cur == seekWithComparator(buckets[idx[t]])
     IN  \E take \in Takes(t, cur) :
           IF take
           THEN /\ buckets' = [b \in Buckets |->
                     IF b = idx[t] THEN Point(buckets[b], cur.path, t)
                     ELSE Unpoint(buckets[b], t)]
                /\ oldest' = [oldest EXCEPT ![t] = "live"]
           ELSE UNCHANGED <<buckets, oldest>>
  /\ ScanUnlock(t)
  /\ idx' = [idx EXCEPT ![t] = IF idx[t] + 1 < NUM_BUCKETS THEN idx[t] + 1 ELSE 0]
  /\ pc' = [pc EXCEPT ![t] =
              IF idx[t] + 1 < NUM_BUCKETS THEN "lru_wait" ELSE "lru_deref"]
  /\ UNCHANGED <<cacheSize, now, op, key, val, rkey, ret, fault, ops,
                 lastWrite, fill>>

\* oldest->m_key after the loop, no lock held.  A null pointer kills the
\* process; a pointer to a deleted node yields any key, or kills it.
Crash == 0

Dereference(t) ==
  IF oldest[t] = "null" THEN {Crash}
  ELSE IF oldest[t] = "live" THEN {Oldest(t).m_key}
  ELSE Keys \cup {Crash}

FaultOf(t) == IF oldest[t] = "null" THEN "null_dereference" ELSE "use_after_free"

LruDeref(t) ==
  /\ Running
  /\ pc[t] = "lru_deref"
  /\ \E k \in Dereference(t) :
       IF k = Crash
       THEN /\ fault' = FaultOf(t)
            /\ UNCHANGED <<buckets, pc, rkey, oldest>>
       ELSE /\ rkey' = [rkey EXCEPT ![t] = k]
            /\ pc' = [pc EXCEPT ![t] = "rm_wait"]
            /\ buckets' = [b \in Buckets |-> Unpoint(buckets[b], t)]
            /\ oldest' = [oldest EXCEPT ![t] = "null"]
            /\ UNCHANGED fault
  /\ UNCHANGED <<bucketLocks, cacheSize, now, op, key, val, idx, ret, ops,
                 lastWrite, fill>>

\* ------------------------------------------------------- specifications
\* Threads calling the three public operations in any interleaving.
Next ==
  \E t \in Threads :
    \/ \E k \in Keys : GetCall(t, k)
    \/ \E k \in Keys, v \in Vals : PutCall(t, k, v)
    \/ \E k \in Keys : RemoveCall(t, k)
    \/ GetLock(t)
    \/ GetBody(t)
    \/ PutLock(t)
    \/ PutBody(t)
    \/ RemoveLock(t)
    \/ RemoveBody(t)
    \/ LruLock(t)
    \/ LruScan(t)
    \/ LruDeref(t)

Spec == Init /\ [][Next]_vars

\* The same, with removeLRU, which the class declares public, called too.
NextLRU ==
  \/ Next
  \/ \E t \in Threads : LruCall(t)

SpecLRU == Init /\ [][NextLRU]_vars

\* The workers of main's insertFunc: puts of distinct keys only.
NextFill ==
  \E t \in Threads :
    \/ FillCall(t)
    \/ PutLock(t)
    \/ FillBody(t)
    \/ LruLock(t)
    \/ LruScan(t)
    \/ LruDeref(t)
    \/ RemoveLock(t)
    \/ RemoveBody(t)

SpecFill == Init /\ [][NextFill]_vars

\* Progress: a thread that can run does run, and a thread waiting for a
\* mutex that is free again and again gets it (fair lock acquisition).
Acquire(t) == GetLock(t) \/ PutLock(t) \/ RemoveLock(t) \/ LruLock(t)
Proceed(t) == GetBody(t) \/ PutBody(t) \/ RemoveBody(t) \/ LruScan(t) \/ LruDeref(t)

Fairness ==
  \A t \in 1..FairThreads : SF_vars(Acquire(t)) /\ WF_vars(Proceed(t))

InitFair == Start(FairThreads, FairOps)

SpecFair == InitFair /\ [][Next]_vars /\ Fairness

\* One thread making its calls one after the other.
InitSeq == Start(1, SeqOps)

SpecSeq == InitSeq /\ [][Next]_vars

\* The class as part_000 has it: every method as in hashcache.cc but put.
Next000 ==
  \E t \in Threads :
    \/ \E k \in Keys : GetCall(t, k)
    \/ \E k \in Keys, v \in Vals : PutCall000(t, k, v)
    \/ \E k \in Keys : RemoveCall(t, k)
    \/ GetLock(t)
    \/ GetBody(t)
    \/ PutLock(t)
    \/ PutBody(t)
    \/ RemoveLock(t)
    \/ RemoveBody(t)
    \/ LruLock(t)
    \/ LruScan(t)
    \/ LruDeref(t)

Spec000 == Init /\ [][Next000]_vars

TypeOK ==
  /\ cacheSize \in -MaxOps..MaxOps
  /\ ops \in 0..MaxOps
  /\ now \in 0..MaxTime
  /\ \A b \in Buckets : bucketLocks[b] \in Threads \cup {0}
  /\ \A t \in Threads : oldest[t] \in {"null", "live", "freed"}
  /\ \A t \in Threads : (oldest[t] = "live") <=> (Oldest(t) # NULL)

\* ----------------------------------------------------------- properties
Held(t) == {b \in Buckets : bucketLocks[b] = t}

Stored(k) == k \in KeysOf(buckets[hashFunc(k)])

\* The bucket holding the node thread t's `oldest` points to.
OldestBucket(t) == {b \in Buckets : t \in Refs(buckets[b])}

\* The buckets whose tree the thread's next statements read or write.
Touches(t) ==
  IF pc[t] \in {"get_cs", "put_cs"} THEN {hashFunc(key[t])}
  ELSE IF pc[t] = "rm_cs" THEN {hashFunc(rkey[t])}
  ELSE IF pc[t] = "lru_cs"
       THEN {idx[t]} \cup
            (IF seekWithComparator(buckets[idx[t]]) # NULL
             THEN OldestBucket(t) ELSE {})
  ELSE IF pc[t] = "lru_deref" THEN OldestBucket(t)
  ELSE {}

\* The thread's next statement reads through `oldest`.
ReadsOldest(t) ==
  \/ pc[t] = "lru_deref"
  \/ pc[t] = "lru_cs" /\ seekWithComparator(buckets[idx[t]]) # NULL
                      /\ oldest[t] # "null"

\* C1: whenever the last completed write of key k is put(k, v) (no remove of
\* k, by a caller or by eviction, and no other put of k has completed since),
\* get(k) returns found = true with value v.
C1_PutThenGet ==
  \A k \in Keys : lastWrite[k] \in Vals => Get(k) = <<TRUE, lastWrite[k]>>

\* C2: whenever the last completed write of key k is a remove(k) that
\* returned (no put of k has completed since), get(k) returns found = false.
C2_RemoveThenGet ==
  \A k \in Keys : lastWrite[k] = Removed => ~Get(k)[1]

\* C3: a remove(k) that finds no node with key k returns false and leaves
\* every bucket's tree as it was.
C3_RemoveAbsent ==
  [][\A t \in Threads :
       (pc[t] = "rm_cs" /\ op[t] = "remove" /\ ~Stored(rkey[t])
          /\ pc'[t] = "idle")
       => (ret'[t] = <<FALSE>> /\ buckets' = buckets)]_vars

\* C4: after CACHE_SIZE + 1 puts of distinct keys made one after the other
\* on an empty cache, with strictly increasing timestamps, the first key put
\* is the only one get does not find.
C4_EvictsOldest ==
  (fill.serial /\ fill.strict /\ AllIdle /\ Len(fill.keys) = CACHE_SIZE + 1)
  => /\ ~Get(fill.keys[1][1])[1]
     /\ \A n \in 2..(CACHE_SIZE + 1) : Get(fill.keys[n][1])[1]
     /\ Cardinality({k \in FillKeys : ~Get(k)[1]}) = 1

C4_Witness ==
  /\ fill.serial /\ fill.strict /\ AllIdle /\ Running
  /\ Len(fill.keys) = CACHE_SIZE + 1
  /\ cacheSize = CACHE_SIZE
  /\ ~Get(fill.keys[1][1])[1]

\* C5: a removeLRU whose scan found no node in any bucket never
\* dereferences its null candidate.
C5_EmptyEvictIsNoOp == fault # "null_dereference"

\* C6: once concurrent puts of K <= CACHE_SIZE distinct keys on an empty
\* cache have all returned, get finds every key with the value put for it,
\* and nothing was evicted.
C6_ConcurrentFill ==
  (AllIdle /\ Len(fill.keys) \in 1..CACHE_SIZE)
  => /\ \A n \in 1..Len(fill.keys) :
          Get(fill.keys[n][1]) = <<TRUE, fill.keys[n][2]>>
     /\ cacheSize = Len(fill.keys)

C6_Witness ==
  /\ AllIdle /\ ~fill.serial /\ Running
  /\ Len(fill.keys) = CACHE_SIZE
  /\ \A n \in 1..Len(fill.keys) :
       Get(fill.keys[n][1]) = <<TRUE, fill.keys[n][2]>>

\* C7: a thread holds at most one bucket lock, and none outside the body
\* it took the lock for: none while it waits for the next bucket of the
\* scan, none when it dereferences the candidate, none when phase 2 asks
\* for its lock.
C7_OneLock ==
  \A t \in Threads :
    /\ Cardinality(Held(t)) <= 1
    /\ pc[t] = "lru_cs" => Held(t) = {idx[t]}
    /\ pc[t] \in {"lru_wait", "lru_deref", "rm_wait", "put_wait"} => Held(t) = {}

\* Phase 2 of an eviction started by put holds the lock of the candidate's
\* bucket, which is not the bucket the scan ended on.
C7_Witness ==
  \E t \in Threads :
    /\ op[t] = "put" /\ pc[t] = "rm_cs"
    /\ Held(t) = {hashFunc(rkey[t])}
    /\ hashFunc(rkey[t]) # NUM_BUCKETS - 1

\* C9: a thread reads or writes the tree of a bucket only while it holds
\* that bucket's lock.
C9_AccessUnderLock ==
  \A t \in Threads : \A b \in Touches(t) : bucketLocks[b] = t

\* C10: no thread reads through a pointer to a node that was deleted.
C10_NoUseAfterFree ==
  \A t \in Threads : ReadsOldest(t) => oldest[t] # "freed"

Waiting(t) == pc[t] \in {"get_wait", "put_wait", "rm_wait", "lru_wait"}
Holding(t) == pc[t] \in {"get_cs", "put_cs", "rm_cs", "lru_cs"}

\* C8: with fair lock acquisition, every thread waiting for a bucket lock
\* eventually acquires it.
C8_WaiterAcquires ==
  \A t \in 1..FairThreads : Waiting(t) ~> Holding(t)

\* ------------------------------------------------- the cache as a whole
\* The nodes stored in buckets b, b + 1, ... of the bucket array bs.
RECURSIVE NodesFrom(_, _)
NodesFrom(bs, b) ==
  IF b >= NUM_BUCKETS THEN 0 ELSE Size(bs[b]) + NodesFrom(bs, b + 1)

TotalNodes == NodesFrom(buckets, 0)

\* The entries <<key, value, timestamp>> a node can hold.
Entries == Keys \X Vals \X (0..MaxTime)

\* How many nodes of the bucket array bs hold entry e, from bucket b on.
RECURSIVE CountFrom(_, _, _)
CountFrom(bs, b, e) ==
  IF b >= NUM_BUCKETS THEN 0 ELSE Count(bs[b], e) + CountFrom(bs, b + 1, e)

\* The timestamps stored in the given buckets.
Stamps(bs) == UNION {StampsOf(buckets[b]) : b \in bs}

\* The buckets removeLRU's loop has been through.
Scanned(t) ==
  IF pc[t] = "lru_deref" THEN Buckets ELSE {b \in Buckets : b < idx[t]}

\* Thread t's step is the body of Cache::remove.
RemoveStep(t) == pc[t] = "rm_cs" /\ pc'[t] # "rm_cs"

\* C11: in single-threaded use, whenever no call is in progress the buckets
\* hold at most CACHE_SIZE nodes in total.
C11_AtMostCapacity == AllIdle => TotalNodes <= CACHE_SIZE

\* C12: Cache::remove decrements cacheSize if and only if the bucket's tree
\* lost a node, and leaves it unchanged otherwise.
C12_DecrementIffLost ==
  [][\A t \in Threads :
       RemoveStep(t)
       => LET b == hashFunc(rkey[t])
              lost == Size(buckets'[b]) < Size(buckets[b])
          IN  /\ lost => cacheSize' = cacheSize - 1
              /\ ~lost => cacheSize' = cacheSize]_vars

\* C13: put increments cacheSize first and goes on to removeLRU exactly when
\* the incremented value is greater than CACHE_SIZE; it reaches the insertion
\* either straight from the test or from the return of the eviction's remove.
C13_EvictsIffOverCapacity ==
  [][\A t \in Threads :
       /\ (pc[t] = "idle" /\ op'[t] = "put" /\ pc'[t] # "idle")
          => /\ cacheSize' = cacheSize + 1
             /\ (pc'[t] = "lru_wait") <=> (cacheSize' > CACHE_SIZE)
       /\ (pc[t] # "put_wait" /\ pc'[t] = "put_wait")
          => \/ pc[t] = "idle" /\ cacheSize' <= CACHE_SIZE
             \/ pc[t] = "rm_cs" /\ op[t] = "put"]_vars

\* C14: while removeLRU scans with no other call running, once a scanned
\* bucket holds a node the candidate is a node, and its timestamp is at most
\* the timestamp of every node in the buckets scanned; at the end of the
\* scan, of every node stored.
C14_CandidateIsOldest ==
  \A t \in Threads :
    (pc[t] \in {"lru_wait", "lru_cs", "lru_deref"} /\ Stamps(Scanned(t)) # {})
    => /\ oldest[t] = "live"
       /\ \A ts \in Stamps(Scanned(t)) : Oldest(t).m_val[2] <= ts

\* The scan has ended on a candidate from the first bucket although the last
\* bucket holds nodes too, and the candidate is strictly older than another
\* node of its own tree.
C14_Witness ==
  \E t \in Threads :
    /\ pc[t] = "lru_deref" /\ oldest[t] = "live"
    /\ OldestBucket(t) = {0}
    /\ buckets[NUM_BUCKETS - 1] # NULL
    /\ \E ts \in StampsOf(buckets[0]) : Oldest(t).m_val[2] < ts

\* C15: every bucket's tree is ordered: at every node the keys of the left
\* subtree are <= the node's key and the keys of the right subtree are >= it,
\* and the in-order traversal is non-decreasing.
C15_TreesOrdered ==
  \A b \in Buckets :
    /\ Ordered(buckets[b])
    /\ LET io == InOrder(buckets[b])
       IN  \A n \in 1..(Len(io) - 1) : io[n] <= io[n + 1]

\* A tree that a removal of a node with two children has been through: the
\* copied successor's key is stored at the node and in its right subtree.
C15_Witness ==
  AllIdle /\ \E b \in Buckets : HasEqualRight(buckets[b])

\* C16: between calls of one thread, get(k) finds k if and only if the
\* bucket k hashes to holds a node with key k.
C16_LookupComplete ==
  AllIdle => \A k \in Keys : Get(k)[1] <=> Stored(k)

\* A tree with a node of two children and a key stored twice, and get finds
\* a key that is not at the root.
C16_Witness ==
  /\ AllIdle
  /\ \E b \in Buckets :
       /\ HasTwoChildren(buckets[b]) /\ HasEqualLeft(buckets[b])
       /\ \E k \in Keys : k # buckets[b].m_key /\ hashFunc(k) = b /\ Get(k)[1]

\* C17: a single-threaded Cache::remove(k) leaves, for every key k2 # k,
\* the entries stored under k2 and the result of get(k2) as they were.
C17_RemoveFrame ==
  [][\A t \in Threads :
       RemoveStep(t)
       => \A e \in Entries :
            e[1] # rkey[t]
            => /\ CountFrom(buckets', 0, e) = CountFrom(buckets, 0, e)
               /\ Get(e[1])' = Get(e[1])]_vars

\* C18: when a put has gone through removeLRU's scan, the candidate it is
\* about to dereference is not null.
C18_CandidateNeverNull ==
  \A t \in Threads : (op[t] = "put" /\ pc[t] = "lru_deref") => oldest[t] # "null"

\* C19: the removal that ends a removeLRU run with no other call running
\* takes exactly one entry out of the cache, one whose timestamp is the
\* least stored; every other entry is stored as often as before.
C19_EvictsOneOldest ==
  [][\A t \in Threads :
       (RemoveStep(t) /\ op[t] # "remove" /\ TotalNodes > 0)
       => \E e \in Entries :
            /\ CountFrom(buckets, 0, e) > 0
            /\ \A ts \in Stamps(Buckets) : e[3] <= ts
            /\ \A f \in Entries :
                 CountFrom(buckets', 0, f) =
                   CountFrom(buckets, 0, f) - (IF f = e THEN 1 ELSE 0)]_vars

=============================================================================
